---- MODULE Spec2Model ----
(***************************************************************************)
(* Model of libp2p-identify/src/protocol.rs: the identify connection       *)
(* upgrade (dialer and listener roles), the one-shot IdentifySender and    *)
(* the message codec (IdentifySender::send encoding, parse_proto_msg).     *)
(*                                                                         *)
(* One connection is modelled.  The local node runs the dialer upgrade on  *)
(* its end; the remote end is either this crate's listener upgrade plus    *)
(* IdentifySender (remote = "listener") or an arbitrary peer that writes   *)
(* whatever frames it likes (remote = "raw").                              *)
(*                                                                         *)
(* Byte strings and Rust Strings are sequences of numbers 0..255.          *)
(***************************************************************************)
EXTENDS Integers, Sequences, FiniteSets, TLC

VARIABLES
    maxLevelDebug,   \* log::max_level() >= Level::Debug
    targetEnabled,   \* the logger's enabled() for target "libp2p-identify" at Debug
    remote,          \* "listener" | "raw": what sits on the far end
    wire,            \* frames written by the far end, not yet read by the dialer
    wrClosed,        \* the far end has dropped its socket (end-of-stream follows wire)
    rdErr,           \* I/O error the dialer's framed stream reported ("none" if none)
    dialer,          \* "idle" | "AwaitingFrame" | "Resolved" | "done" | "panicked" | "dropped"
    dialerAddr,      \* observed_addr argument of the dialer's upgrade
    dialerLog,       \* observed_addr_log of the dialer's closure: <<>> is None, <<a>> is Some(a)
    dialerEvent,     \* what the stream future resolved with: "none" | "frame" | "eof" | "error"
    dialerOut,       \* result of the dialer's future
    dialerReads,     \* frames the dialer's future has taken from the stream
    listener,        \* "idle" | "AwaitingFrame" | "Resolved" | "done"
    listenerAddr,    \* observed_addr argument of the listener's upgrade
    listenerOut,     \* result of the listener's future
    sender,          \* the IdentifySender value: "none" | "held" | "consumed" | "dropped"
    sendFut,         \* future returned by send: "none" | "start" | "flushing" | "done" | "failed" | "dropped"
    sendBytes,       \* the payload captured by the future returned by send
    sent,            \* <<>> or <<[info, observed_addr]>>: the arguments of send
    sendCalls,       \* invocations of IdentifySender::send on the instance
    sendOut,         \* result of the future returned by send
    wrErr,           \* I/O error the listener's framed sink reported ("none" if none)
    frames,          \* frames written to the channel through the IdentifySender
    rawWritten       \* frames a raw peer has written to the channel

vars == <<maxLevelDebug, targetEnabled, remote, wire, wrClosed, rdErr, dialer,
          dialerAddr, dialerLog, dialerEvent, dialerOut, dialerReads,
          listener, listenerAddr, listenerOut, sender, sendFut, sendBytes,
          sent, sendCalls, sendOut, wrErr, frames, rawWritten>>

----------------------------------------------------------------------------
(* Bounds *)

\* longest listen_addrs list that send is given
MaxAddrs == 2
\* longest protocols list that send is given
MaxProtocols == 2
\* most frames a raw peer writes on the connection
MaxRawFrames == 2

----------------------------------------------------------------------------
(* Multiaddr: a sequence of components [code, arg].  The binary form is    *)
(* the concatenation of code byte and argument bytes of each component.    *)

\* protocol codes of the address library
IP4 == 4
TCP == 6

\* size in bytes of the argument of a protocol, -1 if the code is unknown
ProtoSize(code) == IF code = IP4 THEN 4 ELSE IF code = TCP THEN 2 ELSE -1

RECURSIVE Flatten(_)
Flatten(comps) ==
    IF comps = <<>> THEN <<>>
    ELSE <<Head(comps).code>> \o Head(comps).arg \o Flatten(Tail(comps))

\* Multiaddr::to_bytes / Multiaddr::into_bytes
ToBytes(addr) == Flatten(addr)

\* Multiaddr::from_bytes: [ok |-> TRUE, addr |-> a, err |-> "none"] or
\* [ok |-> FALSE, addr |-> <<>>, err |-> the library's error]
RECURSIVE ParseComps(_, _)
ParseComps(bytes, acc) ==
    IF bytes = <<>> THEN [ok |-> TRUE, addr |-> acc, err |-> "none"]
    ELSE LET code == Head(bytes)
             size == ProtoSize(code)
         IN IF size < 0
            THEN [ok |-> FALSE, addr |-> <<>>, err |-> "UnknownProtocol"]
            ELSE IF Len(bytes) < 1 + size
            THEN [ok |-> FALSE, addr |-> <<>>, err |-> "InvalidMultiaddr"]
            ELSE ParseComps(SubSeq(bytes, 2 + size, Len(bytes)),
                            Append(acc, [code |-> code,
                                         arg |-> SubSeq(bytes, 2, 1 + size)]))

FromBytes(bytes) == ParseComps(bytes, <<>>)

\* "/ip4/80.81.82.83/tcp/500"
Addr1 == << [code |-> IP4, arg |-> <<80, 81, 82, 83>>],
            [code |-> TCP, arg |-> <<1, 244>>] >>
\* "/ip4/100.101.102.103/tcp/5000"
Addr2 == << [code |-> IP4, arg |-> <<100, 101, 102, 103>>],
            [code |-> TCP, arg |-> <<19, 136>>] >>

Addrs == {Addr1, Addr2}

----------------------------------------------------------------------------
(* Protobuf message Identify.  A serialized message is a sequence of       *)
(* fields [num, wt, val]: field number, wire type, payload bytes.          *)

\* field numbers of structs_proto::Identify
F_publicKey == 1
F_listenAddrs == 2
F_protocols == 3
F_observedAddr == 4
F_protocolVersion == 5
F_agentVersion == 6

\* wire type of length-delimited fields (bytes, string)
WT_LEN == 2

Field(num, val) == [num |-> num, wt |-> WT_LEN, val |-> val]

RECURSIVE Repeated(_, _)
Repeated(num, vals) ==
    IF vals = <<>> THEN <<>>
    ELSE <<Field(num, Head(vals))>> \o Repeated(num, Tail(vals))

\* structs_proto::Identify::new()
NewIdentify ==
    [publicKey |-> <<>>, listenAddrs |-> <<>>, protocols |-> <<>>,
     observedAddr |-> <<>>, protocolVersion |-> <<>>, agentVersion |-> <<>>,
     has |-> {}]

\* Message::write_to_bytes: singular fields that were set, repeated fields
\* entry by entry
WriteToBytes(m) ==
    (IF F_publicKey \in m.has THEN <<Field(F_publicKey, m.publicKey)>> ELSE <<>>)
    \o Repeated(F_listenAddrs, m.listenAddrs)
    \o Repeated(F_protocols, m.protocols)
    \o (IF F_observedAddr \in m.has THEN <<Field(F_observedAddr, m.observedAddr)>> ELSE <<>>)
    \o (IF F_protocolVersion \in m.has THEN <<Field(F_protocolVersion, m.protocolVersion)>> ELSE <<>>)
    \o (IF F_agentVersion \in m.has THEN <<Field(F_agentVersion, m.agentVersion)>> ELSE <<>>)

\* a Rust String holds valid UTF-8; the model's strings are ASCII
IsUtf8(bytes) == \A i \in 1..Len(bytes) : bytes[i] < 128

\* protobuf::core::parse_from_bytes::<Identify>: singular fields keep the
\* last occurrence, repeated fields append, unknown fields are skipped; a
\* field number 0, a known field with another wire type or a string that
\* is not UTF-8 fails the parse
RECURSIVE MergeFrom(_, _)
MergeFrom(bytes, m) ==
    IF bytes = <<>> THEN [ok |-> TRUE, msg |-> m]
    ELSE LET f == Head(bytes)
             rest == Tail(bytes)
             bad == [ok |-> FALSE, msg |-> NewIdentify]
         IN IF f.num = 0 THEN bad
            ELSE IF f.num \notin 1..6 THEN MergeFrom(rest, m)
            ELSE IF f.wt # WT_LEN THEN bad
            ELSE IF f.num = F_publicKey
                 THEN MergeFrom(rest, [m EXCEPT !.publicKey = f.val,
                                                !.has = @ \cup {f.num}])
            ELSE IF f.num = F_listenAddrs
                 THEN MergeFrom(rest, [m EXCEPT !.listenAddrs = Append(@, f.val)])
            ELSE IF f.num = F_observedAddr
                 THEN MergeFrom(rest, [m EXCEPT !.observedAddr = f.val,
                                                !.has = @ \cup {f.num}])
            ELSE IF ~IsUtf8(f.val) THEN bad
            ELSE IF f.num = F_protocols
                 THEN MergeFrom(rest, [m EXCEPT !.protocols = Append(@, f.val)])
            ELSE IF f.num = F_protocolVersion
                 THEN MergeFrom(rest, [m EXCEPT !.protocolVersion = f.val,
                                                !.has = @ \cup {f.num}])
            ELSE MergeFrom(rest, [m EXCEPT !.agentVersion = f.val,
                                           !.has = @ \cup {f.num}])

ParseFromBytes(bytes) == MergeFrom(bytes, NewIdentify)

----------------------------------------------------------------------------
(* Values of the program *)

\* IdentifyInfo
Info(pk, pv, av, la, ps) ==
    [public_key |-> pk, protocol_version |-> pv, agent_version |-> av,
     listen_addrs |-> la, protocols |-> ps]

NoInfo == Info(<<>>, <<>>, <<>>, <<>>, <<>>)

\* Result<IdentifyOutput, IoError> of a future; tag "None" while it has no result
NoOut ==
    [tag |-> "None", info |-> NoInfo, observed_addr |-> <<>>,
     kind |-> "none", cause |-> "none"]

\* IdentifyOutput::RemoteInfo { info, observed_addr }
RemoteInfo(info, observed_addr) ==
    [NoOut EXCEPT !.tag = "RemoteInfo", !.info = info,
                  !.observed_addr = observed_addr]

\* IdentifyOutput::Sender { sender, observed_addr }
SenderOut(observed_addr) ==
    [NoOut EXCEPT !.tag = "Sender", !.observed_addr = observed_addr]

\* Err(IoError) with its ErrorKind and the error it wraps
Err(kind, cause) == [NoOut EXCEPT !.tag = "Err", !.kind = kind, !.cause = cause]

\* Ok(()) of the future returned by send
OkUnit == [NoOut EXCEPT !.tag = "Ok"]

----------------------------------------------------------------------------
(* Message codec *)

RECURSIVE MapToBytes(_)
MapToBytes(addrs) ==
    IF addrs = <<>> THEN <<>>
    ELSE <<ToBytes(Head(addrs))>> \o MapToBytes(Tail(addrs))

\* send with the two version strings set into each other's field
Encode_SwappedVersions(info, observed_addr) ==
    LET listen_addrs == MapToBytes(info.listen_addrs)
        message ==
            [NewIdentify EXCEPT
                !.agentVersion = info.protocol_version,
                !.protocolVersion = info.agent_version,
                !.publicKey = info.public_key,
                !.listenAddrs = listen_addrs,
                !.observedAddr = ToBytes(observed_addr),
                !.protocols = info.protocols,
                !.has = {F_agentVersion, F_protocolVersion, F_publicKey,
                         F_observedAddr}]
    IN WriteToBytes(message)

\* IdentifySender::send, the payload it builds
Encode(info, observed_addr) ==
    LET listen_addrs == MapToBytes(info.listen_addrs)
        message ==
            [NewIdentify EXCEPT
                !.agentVersion = info.agent_version,
                !.protocolVersion = info.protocol_version,
                !.publicKey = info.public_key,
                !.listenAddrs = listen_addrs,
                !.observedAddr = ToBytes(observed_addr),
                !.protocols = info.protocols,
                !.has = {F_agentVersion, F_protocolVersion, F_publicKey,
                         F_observedAddr}]
    IN WriteToBytes(message)

\* the loop skipping the entries that do not decode instead of returning
RECURSIVE DecodeAddrs_SkipBad(_, _)
DecodeAddrs_SkipBad(blobs, addrs) ==
    IF blobs = <<>> THEN [ok |-> TRUE, addrs |-> addrs, err |-> "none"]
    ELSE LET r == FromBytes(Head(blobs))
         IN IF ~r.ok THEN DecodeAddrs_SkipBad(Tail(blobs), addrs)
            ELSE DecodeAddrs_SkipBad(Tail(blobs), Append(addrs, r.addr))

\* the loop over msg.take_listenAddrs(): stops at the first entry that
\* does not decode
RECURSIVE DecodeAddrs(_, _)
DecodeAddrs(blobs, addrs) ==
    IF blobs = <<>> THEN [ok |-> TRUE, addrs |-> addrs, err |-> "none"]
    ELSE LET r == FromBytes(Head(blobs))
         IN IF ~r.ok THEN [ok |-> FALSE, addrs |-> <<>>, err |-> r.err]
            ELSE DecodeAddrs(Tail(blobs), Append(addrs, r.addr))

\* parse_proto_msg decoding observedAddr before the listenAddrs entries
parse_proto_msg_ObservedFirst(msg) ==
    LET p == ParseFromBytes(msg)
    IN IF ~p.ok THEN Err("InvalidData", "ProtobufError")
       ELSE LET observed_addr == FromBytes(p.msg.observedAddr)
            IN IF ~observed_addr.ok THEN Err("InvalidData", observed_addr.err)
               ELSE LET listen_addrs == DecodeAddrs(p.msg.listenAddrs, <<>>)
                    IN IF ~listen_addrs.ok
                       THEN Err("InvalidData", listen_addrs.err)
                       ELSE RemoteInfo(Info(p.msg.publicKey,
                                            p.msg.protocolVersion,
                                            p.msg.agentVersion,
                                            listen_addrs.addrs,
                                            p.msg.protocols),
                                       observed_addr.addr)

\* parse_proto_msg: Ok((info, observed_addr)) as RemoteInfo's fields, or Err
parse_proto_msg(msg) ==
    LET p == ParseFromBytes(msg)
    IN IF ~p.ok THEN Err("InvalidData", "ProtobufError")
       ELSE LET listen_addrs == DecodeAddrs(p.msg.listenAddrs, <<>>)
            IN IF ~listen_addrs.ok THEN Err("InvalidData", listen_addrs.err)
               ELSE LET observed_addr == FromBytes(p.msg.observedAddr)
                    IN IF ~observed_addr.ok
                       THEN Err("InvalidData", observed_addr.err)
                       ELSE RemoteInfo(Info(p.msg.publicKey,
                                            p.msg.protocolVersion,
                                            p.msg.agentVersion,
                                            listen_addrs.addrs,
                                            p.msg.protocols),
                                       observed_addr.addr)

----------------------------------------------------------------------------
(* Inputs *)

RECURSIVE SeqsUpTo(_, _)
SeqsUpTo(S, n) ==
    IF n = 0 THEN {<<>>}
    ELSE LET shorter == SeqsUpTo(S, n - 1)
         IN shorter \cup {Append(q, x) : q \in shorter, x \in S}

\* "p" and "a"
Strings == {<<112>>, <<97>>}

\* <<public_key, protocol_version, agent_version>> of the infos sent
Scalars ==
    { << <<>>, <<112>>, <<97>> >>,
      << <<1, 2, 3, 4, 5, 7>>, <<97>>, <<112>> >> }

Infos ==
    {Info(sc[1], sc[2], sc[3], la, ps) :
        sc \in Scalars,
        la \in SeqsUpTo(Addrs, MaxAddrs), ps \in SeqsUpTo(Strings, MaxProtocols)}

\* the address the transport observed for the listener, given to the
\* dialer's upgrade
DialerAddrs == {Addr1}

\* std::io::ErrorKind values the transport reports
IoErrors == {"ConnectionReset", "BrokenPipe"}
\* outcome of an operation on the socket: "none" is success
IoResults == {"none"} \cup IoErrors

\* address blobs that Multiaddr::from_bytes rejects: an unknown protocol
\* code, and an ip4 component cut short
BadAddrUnknown == <<9, 1>>
BadAddrShort == <<IP4, 80, 81>>

RawMsg(la, oa) ==
    [NewIdentify EXCEPT !.publicKey = <<1, 2>>, !.protocolVersion = <<112>>,
                        !.agentVersion = <<97>>, !.listenAddrs = la,
                        !.observedAddr = oa, !.protocols = << <<112>> >>,
                        !.has = {F_agentVersion, F_protocolVersion,
                                 F_publicKey, F_observedAddr}]

\* payloads a raw peer may put in a frame
RawPayloads ==
    { WriteToBytes(RawMsg(<<ToBytes(Addr1), ToBytes(Addr2)>>, ToBytes(Addr2))),
      WriteToBytes(RawMsg(<<ToBytes(Addr1), BadAddrShort>>, ToBytes(Addr2))),
      WriteToBytes(RawMsg(<<ToBytes(Addr1)>>, BadAddrUnknown)),
      WriteToBytes(RawMsg(<<BadAddrShort>>, BadAddrUnknown)),
      WriteToBytes(RawMsg(<<BadAddrUnknown, BadAddrShort>>, ToBytes(Addr2))),
      <<[num |-> 0, wt |-> 0, val |-> <<>>]>>,
      <<>> }

----------------------------------------------------------------------------
(* Logging macros *)

\* log_enabled!(target: "libp2p-identify", Level::Debug)
LogEnabled == maxLevelDebug /\ targetEnabled

\* debug!(target: "libp2p-identify", ...) evaluates its arguments when the
\* level passes log::max_level(), before the logger is asked about the target
DebugArgsEvaluated == maxLevelDebug

----------------------------------------------------------------------------
(* ConnectionUpgrade::upgrade *)

\* upgrade with the listener's future waiting on the stream before it
\* hands out the sender
Upgrade_ListenerWaits(ty, observed_addr, log_enabled) ==
    LET observed_addr_log == IF log_enabled THEN <<observed_addr>> ELSE <<>>
    IN IF ty = "Dialer"
       THEN [state |-> "AwaitingFrame", log |-> observed_addr_log, out |-> NoOut]
       ELSE [state |-> "AwaitingFrame", log |-> observed_addr_log,
             out |-> SenderOut(observed_addr)]

\* upgrade with the two arms of the match on ty exchanged
Upgrade_SwappedArms(ty, observed_addr, log_enabled) ==
    LET observed_addr_log == IF log_enabled THEN <<observed_addr>> ELSE <<>>
    IN IF ty = "Listener"
       THEN [state |-> "AwaitingFrame", log |-> observed_addr_log, out |-> NoOut]
       ELSE [state |-> "Resolved", log |-> observed_addr_log,
             out |-> SenderOut(observed_addr)]

\* The future that upgrade returns: its state, the observed_addr_log its
\* closure captured and the output it holds
Upgrade(ty, observed_addr, log_enabled) ==
    LET observed_addr_log == IF log_enabled THEN <<observed_addr>> ELSE <<>>
    IN IF ty = "Dialer"
       THEN [state |-> "AwaitingFrame", log |-> observed_addr_log, out |-> NoOut]
       ELSE [state |-> "Resolved", log |-> observed_addr_log,
             out |-> SenderOut(observed_addr)]

\* the closure returning the observed_addr argument of upgrade instead of
\* the one it decoded (the inner binding shadows the outer one)
DialerClosure_OuterAddr(msg, observed_addr_log) ==
    IF DebugArgsEvaluated /\ observed_addr_log = <<>>
    THEN [panic |-> TRUE, out |-> NoOut]
    ELSE IF msg # <<>>
         THEN LET r == parse_proto_msg(msg[1])
              IN [panic |-> FALSE,
                  out |-> IF r.tag = "RemoteInfo"
                          THEN [r EXCEPT !.observed_addr = dialerAddr]
                          ELSE r]
         ELSE [panic |-> FALSE, out |-> Err("InvalidData", "none")]

\* the and_then closure of the dialer: msg is <<>> for None, <<payload>> for Some
DialerClosure(msg, observed_addr_log) ==
    IF DebugArgsEvaluated /\ observed_addr_log = <<>>
    THEN [panic |-> TRUE, out |-> NoOut]
    ELSE IF msg # <<>>
         THEN [panic |-> FALSE, out |-> parse_proto_msg(msg[1])]
         ELSE [panic |-> FALSE, out |-> Err("InvalidData", "none")]

\* the transport's error reported as a data error
DialerMapErr_Reclassified(err) == Err("InvalidData", err)

\* map_err(|(err, _)| err)
DialerMapErr(err) == Err(err, "none")

Init ==
    /\ maxLevelDebug \in BOOLEAN
    /\ targetEnabled \in BOOLEAN
    \* a logger raises max_level to cover the targets it enables
    /\ targetEnabled => maxLevelDebug
    /\ remote \in {"listener", "raw"}
    /\ wire = <<>>
    /\ wrClosed = FALSE
    /\ rdErr = "none"
    /\ dialer = "idle"
    /\ dialerAddr = <<>>
    /\ dialerLog = <<>>
    /\ dialerEvent = "none"
    /\ dialerOut = NoOut
    /\ dialerReads = 0
    /\ listener = "idle"
    /\ listenerAddr = <<>>
    /\ listenerOut = NoOut
    /\ sender = "none"
    /\ sendFut = "none"
    /\ sendBytes = <<>>
    /\ sent = <<>>
    /\ sendCalls = 0
    /\ sendOut = NoOut
    /\ wrErr = "none"
    /\ frames = <<>>
    /\ rawWritten = <<>>

dialerVars == <<dialer, dialerAddr, dialerLog, dialerEvent, dialerOut, dialerReads>>
listenerVars == <<listener, listenerAddr, listenerOut>>
senderVars == <<sender, sendFut, sendBytes, sent, sendCalls, sendOut, frames>>
logVars == <<maxLevelDebug, targetEnabled, remote>>

\* the local node calls upgrade(socket, (), Endpoint::Dialer, observed_addr)
DialerUpgrade(observed_addr) ==
    /\ dialer = "idle"
    /\ LET f == Upgrade("Dialer", observed_addr, LogEnabled)
       IN /\ dialer' = f.state
          /\ dialerLog' = f.log
          /\ dialerOut' = f.out
    /\ dialerAddr' = observed_addr
    /\ UNCHANGED <<dialerEvent, dialerReads, listenerVars, senderVars, logVars,
                   wire, wrClosed, rdErr, wrErr, rawWritten>>

\* the dialer draining the stream and keeping the last frame
DialerRecvFrame_Drain ==
    /\ dialer = "AwaitingFrame"
    /\ wire # <<>>
    /\ LET r == DialerClosure(<<wire[Len(wire)]>>, dialerLog)
       IN /\ dialer' = IF r.panic THEN "panicked" ELSE "done"
          /\ dialerOut' = r.out
    /\ dialerEvent' = "frame"
    /\ dialerReads' = dialerReads + Len(wire)
    /\ wire' = <<>>
    /\ UNCHANGED <<dialerAddr, dialerLog, listenerVars, senderVars, logVars,
                   wrClosed, rdErr, wrErr, rawWritten>>

\* the dialer's future keeping the stream and taking frames again after
\* it has completed
DialerRecvFrame_KeepsStream ==
    /\ dialer \in {"AwaitingFrame", "done"}
    /\ wire # <<>>
    /\ LET r == DialerClosure(<<Head(wire)>>, dialerLog)
       IN /\ dialer' = IF r.panic THEN "panicked" ELSE "done"
          /\ dialerOut' = IF dialer = "done" THEN dialerOut ELSE r.out
    /\ dialerEvent' = "frame"
    /\ dialerReads' = dialerReads + 1
    /\ wire' = Tail(wire)
    /\ UNCHANGED <<dialerAddr, dialerLog, listenerVars, senderVars, logVars,
                   wrClosed, rdErr, wrErr, rawWritten>>

\* the stream future yields (Some(frame), rest): the closure runs on the frame
DialerRecvFrame ==
    /\ dialer = "AwaitingFrame"
    /\ wire # <<>>
    /\ LET r == DialerClosure(<<Head(wire)>>, dialerLog)
       IN /\ dialer' = IF r.panic THEN "panicked" ELSE "done"
          /\ dialerOut' = r.out
    /\ dialerEvent' = "frame"
    /\ dialerReads' = dialerReads + 1
    /\ wire' = Tail(wire)
    /\ UNCHANGED <<dialerAddr, dialerLog, listenerVars, senderVars, logVars,
                   wrClosed, rdErr, wrErr, rawWritten>>

\* the dialer giving up on a stream that is still open, as a timeout would
DialerRecvEof_Timeout ==
    /\ dialer = "AwaitingFrame"
    /\ wire = <<>>
    /\ LET r == DialerClosure(<<>>, dialerLog)
       IN /\ dialer' = IF r.panic THEN "panicked" ELSE "done"
          /\ dialerOut' = r.out
    /\ dialerEvent' = "eof"
    /\ UNCHANGED <<dialerAddr, dialerLog, dialerReads, listenerVars, senderVars,
                   logVars, wire, wrClosed, rdErr, wrErr, rawWritten>>

\* the stream future yields (None, rest): end-of-stream before any frame
DialerRecvEof ==
    /\ dialer = "AwaitingFrame"
    /\ wire = <<>>
    /\ wrClosed
    /\ LET r == DialerClosure(<<>>, dialerLog)
       IN /\ dialer' = IF r.panic THEN "panicked" ELSE "done"
          /\ dialerOut' = r.out
    /\ dialerEvent' = "eof"
    /\ UNCHANGED <<dialerAddr, dialerLog, dialerReads, listenerVars, senderVars,
                   logVars, wire, wrClosed, rdErr, wrErr, rawWritten>>

\* the stream future fails with (err, rest): the closure does not run
DialerRecvErr(err) ==
    /\ dialer = "AwaitingFrame"
    /\ rdErr' = err
    /\ dialer' = "done"
    /\ dialerOut' = DialerMapErr(err)
    /\ dialerEvent' = "error"
    /\ UNCHANGED <<dialerAddr, dialerLog, dialerReads, listenerVars, senderVars,
                   logVars, wire, wrClosed, wrErr, rawWritten>>

\* the caller drops the pending future
DialerDrop ==
    /\ dialer = "AwaitingFrame"
    /\ dialer' = "dropped"
    /\ UNCHANGED <<dialerAddr, dialerLog, dialerEvent, dialerOut, dialerReads,
                   listenerVars, senderVars, logVars, wire, wrClosed, rdErr,
                   wrErr, rawWritten>>

\* the remote node calls upgrade(socket, (), Endpoint::Listener, observed_addr)
ListenerUpgrade(observed_addr) ==
    /\ remote = "listener"
    /\ listener = "idle"
    /\ LET f == Upgrade("Listener", observed_addr, LogEnabled)
       IN /\ listener' = f.state
          /\ listenerOut' = f.out
    /\ listenerAddr' = observed_addr
    /\ UNCHANGED <<dialerVars, senderVars, logVars, wire, wrClosed, rdErr,
                   wrErr, rawWritten>>

\* the first poll of future::ok hands the output, and with it the
\* IdentifySender, to the caller
ListenerPoll ==
    /\ listener = "Resolved"
    /\ listener' = "done"
    /\ sender' = IF listenerOut.tag = "Sender" THEN "held" ELSE sender
    /\ UNCHANGED <<dialerVars, listenerAddr, listenerOut, sendFut, sendBytes,
                   sent, sendCalls, sendOut, frames, logVars, wire, wrClosed,
                   rdErr, wrErr, rawWritten>>

----------------------------------------------------------------------------
(* IdentifySender::send *)

\* send borrowing the sender: the caller still has it afterwards
SenderAfterSend_Kept == "held"

\* send takes self by value: the caller no longer has the sender
SenderAfterSend == "consumed"

\* send transmitting the observed address of the Sender variant instead
\* of its own argument
Send_SenderAddr(info, observed_addr) ==
    /\ sender = "held"
    /\ sender' = SenderAfterSend
    /\ sendFut' = "start"
    /\ sendBytes' = Encode(info, listenerOut.observed_addr)
    /\ sent' = <<[info |-> info, observed_addr |-> observed_addr]>>
    /\ sendCalls' = sendCalls + 1
    /\ sendOut' = NoOut
    /\ UNCHANGED <<dialerVars, listenerVars, frames, logVars, wire, wrClosed,
                   rdErr, wrErr, rawWritten>>

\* the caller invokes sender.send(info, &observed_addr)
Send(info, observed_addr) ==
    /\ sender = "held"
    /\ sender' = SenderAfterSend
    /\ sendFut' = "start"
    /\ sendBytes' = Encode(info, observed_addr)
    /\ sent' = <<[info |-> info, observed_addr |-> observed_addr]>>
    /\ sendCalls' = sendCalls + 1
    /\ sendOut' = NoOut
    /\ UNCHANGED <<dialerVars, listenerVars, frames, logVars, wire, wrClosed,
                   rdErr, wrErr, rawWritten>>

\* an error of the framed sink is the error of the future (map touches
\* only the success value)
SendErr(err) == Err(err, "none")

\* the future reporting success as soon as the payload is handed over,
\* before the frame is flushed
SendStart_EarlyOk(io) ==
    /\ sendFut = "start"
    /\ IF io # "none"
       THEN /\ sendFut' = "failed"
            /\ sendOut' = SendErr(io)
            /\ wrClosed' = TRUE
       ELSE /\ sendFut' = "done"
            /\ sendOut' = OkUnit
            /\ UNCHANGED wrClosed
    /\ wrErr' = io
    /\ UNCHANGED <<dialerVars, listenerVars, sender, sendBytes, sent, sendCalls,
                   frames, logVars, wire, rdErr, rawWritten>>

\* Sink::send, first half: the payload is handed to the framed sink
SendStart(io) ==
    /\ sendFut = "start"
    /\ IF io # "none"
       THEN /\ sendFut' = "failed"
            /\ sendOut' = SendErr(io)
            /\ wrClosed' = TRUE
       ELSE /\ sendFut' = "flushing"
            /\ UNCHANGED <<sendOut, wrClosed>>
    /\ wrErr' = io
    /\ UNCHANGED <<dialerVars, listenerVars, sender, sendBytes, sent, sendCalls,
                   frames, logVars, wire, rdErr, rawWritten>>

\* Sink::send, second half: the frame is flushed, the future completes and
\* map(|_| ()) drops the framed socket
SendFlush(io) ==
    /\ sendFut = "flushing"
    /\ IF io # "none"
       THEN /\ sendFut' = "failed"
            /\ sendOut' = SendErr(io)
            /\ UNCHANGED <<wire, frames>>
       ELSE /\ sendFut' = "done"
            /\ sendOut' = OkUnit
            /\ wire' = Append(wire, sendBytes)
            /\ frames' = Append(frames, sendBytes)
    /\ wrErr' = io
    /\ wrClosed' = TRUE
    /\ UNCHANGED <<dialerVars, listenerVars, sender, sendBytes, sent, sendCalls,
                   logVars, rdErr, rawWritten>>

\* the write going on in the background after the future was dropped
SendDrop_Detached ==
    /\ sendFut \in {"start", "flushing"}
    /\ sendFut' = "dropped"
    /\ wire' = Append(wire, sendBytes)
    /\ frames' = Append(frames, sendBytes)
    /\ wrClosed' = TRUE
    /\ UNCHANGED <<dialerVars, listenerVars, sender, sendBytes, sent, sendCalls,
                   sendOut, logVars, rdErr, wrErr, rawWritten>>

\* the caller drops the future returned by send before it completes
SendDrop ==
    /\ sendFut \in {"start", "flushing"}
    /\ sendFut' = "dropped"
    /\ wrClosed' = TRUE
    /\ UNCHANGED <<dialerVars, listenerVars, sender, sendBytes, sent, sendCalls,
                   sendOut, frames, logVars, wire, rdErr, wrErr, rawWritten>>

\* the caller drops the IdentifySender without calling send
SenderDrop ==
    /\ sender = "held"
    /\ sender' = "dropped"
    /\ wrClosed' = TRUE
    /\ UNCHANGED <<dialerVars, listenerVars, sendFut, sendBytes, sent, sendCalls,
                   sendOut, frames, logVars, wire, rdErr, wrErr, rawWritten>>

----------------------------------------------------------------------------
(* Environment: the transport and a raw peer *)

\* a raw peer writes a frame
RawWrite(payload) ==
    /\ remote = "raw"
    /\ ~wrClosed
    /\ Len(rawWritten) < MaxRawFrames
    /\ wire' = Append(wire, payload)
    /\ rawWritten' = Append(rawWritten, payload)
    /\ UNCHANGED <<dialerVars, listenerVars, senderVars, logVars, wrClosed,
                   rdErr, wrErr>>

\* a raw peer closes the connection
RawClose ==
    /\ remote = "raw"
    /\ ~wrClosed
    /\ wrClosed' = TRUE
    /\ UNCHANGED <<dialerVars, listenerVars, senderVars, logVars, wire, rdErr,
                   wrErr, rawWritten>>

Next ==
    \/ \E a \in DialerAddrs : DialerUpgrade(a)
    \/ DialerRecvFrame
    \/ DialerRecvEof
    \/ \E e \in IoErrors : DialerRecvErr(e)
    \/ DialerDrop
    \/ \E a \in Addrs : ListenerUpgrade(a)
    \/ ListenerPoll
    \/ \E info \in Infos, a \in Addrs : Send(info, a)
    \/ \E io \in IoResults : SendStart(io)
    \/ \E io \in IoResults : SendFlush(io)
    \/ SendDrop
    \/ SenderDrop
    \/ \E p \in RawPayloads : RawWrite(p)
    \/ RawClose

Spec == Init /\ [][Next]_vars

----------------------------------------------------------------------------
(* Properties *)

\* every frame ever written to the channel, in order
AllWritten == frames \o rawWritten

\* a payload that fails schema parsing or holds an address blob that the
\* address library rejects
Malformed(payload) ==
    LET p == ParseFromBytes(payload)
    IN \/ ~p.ok
       \/ \E i \in 1..Len(p.msg.listenAddrs) : ~FromBytes(p.msg.listenAddrs[i]).ok
       \/ ~FromBytes(p.msg.observedAddr).ok

\* C1: when the far end is this crate's listener and the dialer's upgrade
\* completes with RemoteInfo, its info is the info given to send, field for
\* field, and its observed_addr is the address given to send.
C1_EndToEnd ==
    (remote = "listener" /\ dialerOut.tag = "RemoteInfo") =>
        /\ sent # <<>>
        /\ dialerOut.info = sent[1].info
        /\ dialerOut.observed_addr = sent[1].observed_addr

C1_Witness ==
    /\ remote = "listener"
    /\ dialer = "done"
    /\ dialerOut.tag = "RemoteInfo"
    /\ dialerOut.info.listen_addrs = <<Addr1, Addr2>>
    /\ Len(dialerOut.info.protocols) = 2
    /\ dialerOut.observed_addr = Addr2
    /\ dialerAddr # Addr2

\* C2: decoding the payload that send built returns the info and the
\* observed address send was given, lists in order with their duplicates,
\* empty lists as empty lists.
C2_RoundTrip ==
    sent # <<>> =>
        parse_proto_msg(sendBytes) = RemoteInfo(sent[1].info, sent[1].observed_addr)

C2_Witness ==
    /\ sent # <<>>
    /\ sent[1].info.listen_addrs = <<>>
    /\ sent[1].info.protocols = <<>>
    /\ sent[1].info.protocol_version # sent[1].info.agent_version
    /\ parse_proto_msg(sendBytes).tag = "RemoteInfo"

\* C3: at most one frame is ever written through the IdentifySender, send
\* is invoked at most once on it, and once send was invoked the caller no
\* longer holds the sender.
C3_SingleUse ==
    /\ Len(frames) <= 1
    /\ sendCalls <= 1
    /\ (sendCalls > 0 => sender # "held")

C3_Witness ==
    /\ sendCalls = 1
    /\ sendFut = "done"
    /\ Len(frames) = 1
    /\ sender = "consumed"

\* C4: the dialer's upgrade never aborts, and its result is fixed by the
\* channel event alone (the frame, end-of-stream, or the I/O error),
\* whatever the logging configuration.
C4_LoggingIndependence ==
    /\ dialer # "panicked"
    /\ (dialerEvent = "frame" => dialerOut = parse_proto_msg(AllWritten[1]))
    /\ (dialerEvent = "eof" => dialerOut = Err("InvalidData", "none"))
    /\ (dialerEvent = "error" => dialerOut = Err(rdErr, "none"))

\* C5: when the dialer's stream ends before any frame, the upgrade has
\* failed with InvalidData (no RemoteInfo, not pending, no abort).
C5_PrematureClose ==
    dialerEvent = "eof" =>
        /\ dialer = "done"
        /\ dialerOut = Err("InvalidData", "none")

\* C6: the dialer's upgrade takes at most one frame from the channel, the
\* frames after the first stay unread, and a result computed from a frame
\* is the decoding of the first frame written.
C6_SingleFrame ==
    /\ dialerReads <= 1
    /\ wire = SubSeq(AllWritten, dialerReads + 1, Len(AllWritten))
    /\ (dialerEvent = "frame" => dialerReads = 1)
    /\ (dialer = "done" /\ dialerEvent = "frame" =>
            dialerOut = parse_proto_msg(AllWritten[1]))

C6_Witness ==
    /\ dialer = "done"
    /\ dialerEvent = "frame"
    /\ dialerReads = 1
    /\ Len(AllWritten) = 2
    /\ AllWritten[2] # AllWritten[1]
    /\ wire = <<AllWritten[2]>>

\* C7: the listener's upgrade never waits on the connection, is resolved
\* as soon as it returns with the Sender variant carrying the observed
\* address it was given, and nothing is on the wire before send is invoked.
C7_RolePurity ==
    remote = "listener" =>
        /\ listener \in {"idle", "Resolved", "done"}
        /\ (listener # "idle" => listenerOut = SenderOut(listenerAddr))
        /\ (sendCalls = 0 => wire = <<>> /\ frames = <<>>)

C7_Witness ==
    /\ remote = "listener"
    /\ listener = "Resolved"
    /\ listenerOut.tag = "Sender"
    /\ listenerOut.observed_addr = Addr2
    /\ dialer = "AwaitingFrame"
    /\ wire = <<>>

\* C8: when the first frame fails schema parsing or holds a listenAddrs
\* entry or an observedAddr that does not decode, the dialer's upgrade
\* yields no RemoteInfo; if it completes, it is with an InvalidData error.
C8_FailFast ==
    (dialerEvent = "frame" /\ Malformed(AllWritten[1])) =>
        /\ dialerOut.tag # "RemoteInfo"
        /\ parse_proto_msg(AllWritten[1]).tag = "Err"
        /\ (dialer = "done" => dialerOut.tag = "Err" /\ dialerOut.kind = "InvalidData")

C8_Witness ==
    /\ dialer = "done"
    /\ dialerEvent = "frame"
    /\ LET p == ParseFromBytes(AllWritten[1])
       IN /\ p.ok
          /\ Len(p.msg.listenAddrs) = 2
          /\ FromBytes(p.msg.listenAddrs[1]).ok
          /\ ~FromBytes(p.msg.listenAddrs[2]).ok
    /\ dialerOut.tag = "Err"

\* C9: a result, once produced, never changes; the dialer's result is
\* RemoteInfo or an error, never a Sender; the listener's result is a
\* Sender, never RemoteInfo.
C9_OutcomeByRole ==
    [][ /\ (dialerOut.tag # "None" => dialerOut' = dialerOut)
        /\ (listenerOut.tag # "None" => listenerOut' = listenerOut)
        /\ dialerOut'.tag \in {"None", "RemoteInfo", "Err"}
        /\ listenerOut'.tag \in {"None", "Sender"} ]_vars

C9_Witness ==
    /\ dialer = "done"
    /\ dialerOut.tag = "RemoteInfo"
    /\ listener = "done"
    /\ listenerOut.tag = "Sender"

\* C10: an I/O error of the channel is the error of the operation: the
\* dialer's upgrade fails with the error its stream reported without having
\* read a frame, and send fails with the error its sink reported without
\* having written a frame.
C10_TransportFailure ==
    /\ (dialerEvent = "error" =>
            /\ dialer = "done"
            /\ dialerOut = Err(rdErr, "none")
            /\ rdErr \in IoErrors
            /\ dialerReads = 0)
    /\ (sendFut = "failed" =>
            /\ sendOut = Err(wrErr, "none")
            /\ wrErr \in IoErrors
            /\ frames = <<>>)

C10_Witness ==
    /\ dialerEvent = "error"
    /\ dialerOut.kind = "BrokenPipe"
    /\ sendFut = "failed"
    /\ sendOut.kind = "ConnectionReset"

\* the components that hold the listener's framed socket: the future
\* returned by upgrade until it is polled, the IdentifySender while the
\* caller has it, the future returned by send until it ends or is dropped
ListenerChannelOwners ==
    (IF listener \in {"AwaitingFrame", "Resolved"} THEN {"upgrade"} ELSE {})
    \cup (IF sender = "held" THEN {"sender"} ELSE {})
    \cup (IF sendFut \in {"start", "flushing"} THEN {"send"} ELSE {})

\* the components that hold the dialer's framed socket: the pending future
DialerChannelOwners ==
    IF dialer = "AwaitingFrame" THEN {"upgrade"} ELSE {}

\* C11: each framed channel has at most one owner at any time: the pending
\* dialer future on its end; on the listener's end the upgrade future, then
\* the IdentifySender, then the future of send, never two of them at once.
C11_ExclusiveOwnership ==
    /\ Cardinality(DialerChannelOwners) <= 1
    /\ Cardinality(ListenerChannelOwners) <= 1
    /\ (sendFut \in {"start", "flushing"} => sender = "consumed")
    /\ (sender = "held" => listener = "done")

C11_Witness ==
    /\ ListenerChannelOwners = {"send"}
    /\ DialerChannelOwners = {"upgrade"}
    /\ sender = "consumed"
    /\ listener = "done"

\* C12: a dialer future or a send future dropped before completion has
\* produced no result and has read or written no frame, the dropped send
\* has released its socket, and after the drop the operation reads, writes
\* and produces nothing.
C12_Cancellation ==
    [][ /\ (dialer' = "dropped" =>
                /\ dialerOut' = NoOut
                /\ dialerReads' = 0
                /\ dialerEvent' = "none")
        /\ (sendFut' = "dropped" =>
                /\ sendOut' = NoOut
                /\ frames' = <<>>
                /\ wrClosed')
        /\ (dialer = "dropped" => dialer' = "dropped")
        /\ (sendFut = "dropped" => sendFut' = "dropped" /\ wire' = wire) ]_vars

C12_Witness ==
    /\ dialer = "dropped"
    /\ sendFut = "dropped"
    /\ sendCalls = 1
    /\ wire = <<>>
    /\ wrClosed

\* C13: the payload of send is encoded when send is called; the future
\* reports success only once exactly that one frame has been written, has
\* no result before, and does not wait for the dialer to read the frame.
C13_SendOrdering ==
    /\ (sendCalls > 0 => sendBytes = Encode(sent[1].info, sent[1].observed_addr))
    /\ (sendFut \in {"start", "flushing"} => sendOut = NoOut /\ frames = <<>>)
    /\ (sendOut.tag = "Ok" => sendFut = "done" /\ frames = <<sendBytes>>)
    /\ (sendFut = "done" => sendOut = OkUnit)

C13_Witness ==
    /\ sendFut = "done"
    /\ sendOut = OkUnit
    /\ frames = <<sendBytes>>
    /\ wire = frames
    /\ dialer = "idle"

\* the error parse_proto_msg's caller is to see for a malformed payload:
\* the schema error, or the address library's error for a blob
DecodeCause(payload) ==
    LET p == ParseFromBytes(payload)
        bad == {i \in 1..Len(p.msg.listenAddrs) : ~FromBytes(p.msg.listenAddrs[i]).ok}
    IN IF ~p.ok THEN {"ProtobufError"}
       ELSE {FromBytes(p.msg.listenAddrs[i]).err : i \in bad}
            \cup (IF FromBytes(p.msg.observedAddr).ok THEN {}
                  ELSE {FromBytes(p.msg.observedAddr).err})

\* C15: when the first frame fails schema parsing or holds a malformed
\* listenAddrs entry or observedAddr, the dialer's upgrade has ended with an
\* InvalidData error carrying the parse or address error, after that one
\* frame.
C15_DecodeFailureKind ==
    (dialerEvent = "frame" /\ Malformed(AllWritten[1])) =>
        /\ dialer = "done"
        /\ dialerOut.tag = "Err"
        /\ dialerOut.kind = "InvalidData"
        /\ dialerOut.cause \in DecodeCause(AllWritten[1])
        /\ dialerReads = 1

\* C16: the dialer's future leaves AwaitingFrame only by being dropped or
\* on a channel event: a frame that is on the wire, end-of-stream of a
\* closed stream, or an I/O error; while the far end has neither written
\* nor closed and no error occurred, the dialer has no result.
C16_NoTimeout ==
    [][ /\ (dialer = "AwaitingFrame" /\ dialer' # "AwaitingFrame" =>
                \/ dialer' = "dropped" /\ dialerEvent' = "none"
                \/ dialerEvent' = "frame" /\ wire # <<>>
                \/ dialerEvent' = "eof" /\ wire = <<>> /\ wrClosed
                \/ dialerEvent' = "error" /\ rdErr' \in IoErrors)
        /\ (AllWritten' = <<>> /\ ~wrClosed' /\ rdErr' = "none" =>
                dialer' \in {"idle", "AwaitingFrame", "dropped"} /\ dialerOut' = NoOut)
      ]_vars

C16_Witness ==
    /\ remote = "listener"
    /\ dialer = "AwaitingFrame"
    /\ sender = "held"
    /\ sendCalls = 0
    /\ ~wrClosed
    /\ dialerOut = NoOut

\* the observedAddr blob of a serialized message
WireObservedAddr(payload) == ParseFromBytes(payload).msg.observedAddr

\* C17: the observed_addr of the dialer's RemoteInfo is the address decoded
\* from the frame it received, and the address in the frame a sender writes
\* is the argument of send; neither is taken from the observed_addr
\* argument of the own upgrade call.
C17_ObservedAddrSource ==
    /\ (dialerOut.tag = "RemoteInfo" =>
            /\ FromBytes(WireObservedAddr(AllWritten[1])).ok
            /\ dialerOut.observed_addr = FromBytes(WireObservedAddr(AllWritten[1])).addr)
    /\ (sendCalls > 0 =>
            WireObservedAddr(sendBytes) = ToBytes(sent[1].observed_addr))
    /\ (remote = "listener" /\ dialerOut.tag = "RemoteInfo" =>
            dialerOut.observed_addr = sent[1].observed_addr)

C17_Witness ==
    /\ remote = "listener"
    /\ dialerOut.tag = "RemoteInfo"
    /\ dialerOut.observed_addr = Addr2
    /\ dialerAddr = Addr1
    /\ sent[1].observed_addr = Addr2
    /\ listenerOut.observed_addr = Addr1

\* C18: frames travel from the listener's end to the dialer's end only:
\* the dialer never obtains a sender, the listener's future never waits on
\* the stream, every frame written is read by nobody but the dialer, and a
\* dialer future that has ended holds no channel and takes no further frame.
C18_OneDirection ==
    [][ /\ dialerOut'.tag # "Sender"
        /\ listener' # "AwaitingFrame"
        /\ Len(AllWritten') = dialerReads' + Len(wire')
        /\ (remote = "listener" => AllWritten' = frames')
        /\ (dialer' \in {"done", "panicked", "dropped"} => DialerChannelOwners' = {})
        /\ (dialer \in {"done", "panicked", "dropped"} =>
                /\ dialer' = dialer
                /\ dialerReads' = dialerReads
                /\ dialerOut' = dialerOut
                /\ Len(wire') >= Len(wire)) ]_vars

C18_Witness ==
    /\ dialer = "done"
    /\ dialerOut.tag = "RemoteInfo"
    /\ dialerReads = 1
    /\ Len(AllWritten) = 2
    /\ Len(wire) = 1

\* the first blob, listenAddrs entries in wire order and then observedAddr,
\* that the address library rejects: <<>> if there is none
RECURSIVE FirstBadBlob(_)
FirstBadBlob(blobs) ==
    IF blobs = <<>> THEN <<>>
    ELSE IF ~FromBytes(Head(blobs)).ok THEN <<Head(blobs)>>
    ELSE FirstBadBlob(Tail(blobs))

\* C19: for a payload that parses, parse_proto_msg reports the error of the
\* lowest-index listenAddrs entry that does not decode, and the error of
\* observedAddr only when every listenAddrs entry decodes; the dialer's
\* error for such a first frame is that error.
C19_DecodeOrder ==
    \A i \in 1..Len(AllWritten) :
        LET p == ParseFromBytes(AllWritten[i])
            bad == FirstBadBlob(Append(p.msg.listenAddrs, p.msg.observedAddr))
            r == parse_proto_msg(AllWritten[i])
        IN (p.ok /\ bad # <<>>) =>
            /\ r = Err("InvalidData", FromBytes(bad[1]).err)
            /\ (i = 1 /\ dialerEvent = "frame" /\ dialer = "done" => dialerOut = r)

C19_Witness ==
    /\ dialer = "done"
    /\ dialerEvent = "frame"
    /\ LET p == ParseFromBytes(AllWritten[1])
       IN /\ p.ok
          /\ Len(p.msg.listenAddrs) = 1
          /\ FromBytes(p.msg.listenAddrs[1]).err = "InvalidMultiaddr"
          /\ FromBytes(p.msg.observedAddr).err = "UnknownProtocol"
    /\ dialerOut = Err("InvalidData", "InvalidMultiaddr")

----------------------------------------------------------------------------
(* A connection between a dialer and this crate's listener on which the    *)
(* transport does not fail and no future or sender is dropped; the event   *)
(* loops of both nodes keep polling the futures they run.                  *)

LiveInit == Init /\ remote = "listener"

LiveNext ==
    \/ \E a \in DialerAddrs : DialerUpgrade(a)
    \/ DialerRecvFrame
    \/ \E a \in Addrs : ListenerUpgrade(a)
    \/ ListenerPoll
    \/ \E info \in Infos, a \in Addrs : Send(info, a)
    \/ SendStart("none")
    \/ SendFlush("none")

LiveSpec ==
    /\ LiveInit
    /\ [][LiveNext]_vars
    /\ WF_vars(\E a \in DialerAddrs : DialerUpgrade(a))
    /\ WF_vars(DialerRecvFrame)
    /\ WF_vars(SendStart("none"))
    /\ WF_vars(SendFlush("none"))

\* C14: once send has been invoked, the send future eventually completes
\* with success and the dialer's upgrade eventually completes with
\* RemoteInfo.
C14_EventualCompletion ==
    (sendCalls = 1) ~>
        (/\ sendFut = "done"
         /\ sendOut = OkUnit
         /\ dialer = "done"
         /\ dialerOut.tag = "RemoteInfo")

====
